---------------------------- MODULE Spec2Model ----------------------------
(***************************************************************************)
(* Model of Sherlock (src/app.py): a Streamlit script that compares two    *)
(* rosters by the normalized "Full Name As Per NRIC" column and exports    *)
(* the added / removed rows as a styled workbook.                          *)
(*                                                                         *)
(* Representation.                                                         *)
(*   text    a Python str, as a sequence of one-character strings          *)
(*   cell    a spreadsheet value as pandas holds it:                       *)
(*             [t |-> "na",  v |-> <<>>]     NaN / None (blank cell)        *)
(*             [t |-> "num", v |-> <<n>>]    a number                      *)
(*             [t |-> "str", v |-> text]     a string                      *)
(*   series  a sequence of cells                                           *)
(*   table   a DataFrame: [cols |-> sequence of header texts,              *)
(*                         rows |-> sequence of rows],                     *)
(*           a row being a sequence of cells aligned with cols.            *)
(*           Headers of one table are pairwise distinct, as pandas'        *)
(*           ExcelFile.parse makes them (src/app.py:57).                   *)
(***************************************************************************)
EXTENDS Integers, Sequences, FiniteSets, TLC

VARIABLES
    legacy_astype,  \* the pandas build: TRUE iff Series.astype(str) turns NaN into the text "nan"
    pc,             \* position of the script run (src/app.py:187-286)
    file_a, file_b, \* whether each file has been uploaded
    df_a_raw, df_b_raw, df_a, df_b,
    issues,
    a_norm, b_norm, a_set, b_set, new_set, removed_set,
    new_rows, removed_rows, new_out, removed_out,
    shown,          \* what the page has displayed so far (errors, KPIs, previews)
    output,         \* the exported workbook (built = FALSE before the export)
    fn, arg, ret, ret2   \* a single call of one helper: its name, argument and results

vars == <<legacy_astype, pc, file_a, file_b, df_a_raw, df_b_raw, df_a, df_b, issues,
          a_norm, b_norm, a_set, b_set, new_set, removed_set,
          new_rows, removed_rows, new_out, removed_out, shown, output,
          fn, arg, ret, ret2>>

flow_vars == <<pc, file_a, file_b, df_a_raw, df_b_raw, df_a, df_b, issues,
               a_norm, b_norm, a_set, b_set, new_set, removed_set,
               new_rows, removed_rows, new_out, removed_out, shown, output>>

call_vars == <<fn, arg, ret, ret2>>

-----------------------------------------------------------------------------
(* Bounds of the model *)

MaxRows == 2      \* rows of an uploaded sheet
MaxLen == 4       \* characters of a raw identity value given to normalize_name
MaxCallRows == 2  \* rows of a table given to a single helper call
MaxTail == 2      \* characters of a sheet name beyond the common prefix

-----------------------------------------------------------------------------
(* Python str primitives *)

Whitespace == {" ", "\t", "\n"}

Lower == <<"a","b","c","d","e","f","g","h","i","j","k","l","m",
           "n","o","p","q","r","s","t","u","v","w","x","y","z">>
Upper == <<"A","B","C","D","E","F","G","H","I","J","K","L","M",
           "N","O","P","Q","R","S","T","U","V","W","X","Y","Z">>
Digits == <<"0","1","2","3","4","5","6","7","8","9">>

upper_ch(c) ==
    IF \E i \in 1..Len(Lower) : Lower[i] = c
    THEN Upper[CHOOSE i \in 1..Len(Lower) : Lower[i] = c]
    ELSE c

lower_ch(c) ==
    IF \E i \in 1..Len(Upper) : Upper[i] = c
    THEN Lower[CHOOSE i \in 1..Len(Upper) : Upper[i] = c]
    ELSE c

str_upper(s) == [i \in 1..Len(s) |-> upper_ch(s[i])]
str_lower(s) == [i \in 1..Len(s) |-> lower_ch(s[i])]

RECURSIVE lstrip(_)
lstrip(s) ==
    IF s = <<>> \/ Head(s) \notin Whitespace THEN s ELSE lstrip(Tail(s))

RECURSIVE rstrip(_)
rstrip(s) ==
    IF s = <<>> \/ s[Len(s)] \notin Whitespace THEN s
    ELSE rstrip(SubSeq(s, 1, Len(s) - 1))

str_strip(s) == rstrip(lstrip(s))

\* re.sub(r"\s+", " ", s): every maximal run of whitespace becomes one space
RECURSIVE collapse_ws(_)
collapse_ws(s) ==
    IF s = <<>> THEN <<>>
    ELSE IF Head(s) \in Whitespace THEN <<" ">> \o collapse_ws(lstrip(s))
    ELSE <<Head(s)>> \o collapse_ws(Tail(s))

\* str(n) for a natural number n
RECURSIVE int_to_text(_)
int_to_text(n) ==
    IF n < 10 THEN <<Digits[n + 1]>>
    ELSE int_to_text(n \div 10) \o <<Digits[(n % 10) + 1]>>

-----------------------------------------------------------------------------
(* Cells *)

NA == [t |-> "na", v |-> <<>>]
Str(s) == [t |-> "str", v |-> s]
Num(n) == [t |-> "num", v |-> <<n>>]

-----------------------------------------------------------------------------
(* Program constants, src/app.py:20-43 *)

NAME_COL == <<"F","u","l","l"," ","N","a","m","e"," ","A","s"," ",
              "P","e","r"," ","N","R","I","C">>
SERIAL_COL == <<"S","/","N">>

SERIAL_CANDIDATES ==
    { <<"S","/","N">>, <<"S","N">>, <<"S","N","O">>,
      <<"S","."," ","N","O">>, <<"S","."," ","N","O",".">>,
      <<"S"," ","N","O">>, <<"S"," ","N","O",".">>,
      <<"N","O">>, <<"N","O",".">>,
      <<"I","N","D","E","X">>, <<"S","E","R","I","A","L">>,
      <<"S","E","R","I","A","L"," ","N","O">>,
      <<"S","E","R","I","A","L"," ","N","O",".">> }

-----------------------------------------------------------------------------
(* normalize_name, src/app.py:59-66 *)

\* Series.astype(str) on one element.  A string is kept, a number is printed.
\* NaN becomes the text "nan" on pandas builds before 3.0 and stays missing
\* on builds where str is the NA-aware string dtype.
astype_str(c) ==
    IF c.t = "str" THEN c
    ELSE IF c.t = "num" THEN Str(int_to_text(c.v[1]))
    ELSE IF legacy_astype THEN Str(<<"n","a","n">>) ELSE NA

\* Series.fillna("") on one element
fillna_empty(c) == IF c.t = "na" THEN Str(<<>>) ELSE c

\* A variant that forgets the whitespace collapse of line 64
normalize_one_no_collapse(c) ==
    str_upper(str_strip(fillna_empty(astype_str(c)).v))

normalize_one(c) ==
    str_upper(collapse_ws(str_strip(fillna_empty(astype_str(c)).v)))

normalize_name(s) == [i \in 1..Len(s) |-> normalize_one(s[i])]

-----------------------------------------------------------------------------
(* DataFrame primitives *)

EmptyTable == [cols |-> <<>>, rows |-> <<>>]

has_col(df, name) == \E i \in 1..Len(df.cols) : df.cols[i] = name

col_index(df, name) == CHOOSE i \in 1..Len(df.cols) : df.cols[i] = name

\* df[name]
column(df, name) ==
    [k \in 1..Len(df.rows) |-> df.rows[k][col_index(df, name)]]

\* seq[mask]: the elements whose mask entry is TRUE, in order
RECURSIVE mask_seq(_, _)
mask_seq(seq, mask) ==
    IF seq = <<>> THEN <<>>
    ELSE (IF Head(mask) THEN <<Head(seq)>> ELSE <<>>)
         \o mask_seq(Tail(seq), Tail(mask))

\* df.loc[mask].copy()
loc(df, mask) == [cols |-> df.cols, rows |-> mask_seq(df.rows, mask)]

\* s.isin(values)
isin(s, values) == [k \in 1..Len(s) |-> s[k] \in values]

-----------------------------------------------------------------------------
(* detect_serial_col, src/app.py:68-73 *)

is_serial_header(c) == str_upper(str_strip(c)) \in SERIAL_CANDIDATES

\* A variant that compares the header as it is, without strip().upper()
detect_serial_col_exact(df) ==
    IF \E i \in 1..Len(df.cols) : df.cols[i] \in SERIAL_CANDIDATES
    THEN CHOOSE i \in 1..Len(df.cols) :
            /\ df.cols[i] \in SERIAL_CANDIDATES
            /\ \A j \in 1..(i - 1) : df.cols[j] \notin SERIAL_CANDIDATES
    ELSE 0

\* The position of the first column whose header is a serial alias, 0 for
\* None (headers of a table are distinct, so position and label agree).
detect_serial_col(df) ==
    IF \E i \in 1..Len(df.cols) : is_serial_header(df.cols[i])
    THEN CHOOSE i \in 1..Len(df.cols) :
            /\ is_serial_header(df.cols[i])
            /\ \A j \in 1..(i - 1) : ~is_serial_header(df.cols[j])
    ELSE 0

-----------------------------------------------------------------------------
(* filter_real_rows, src/app.py:75-87 *)

\* Whether a text is a decimal literal: optional surrounding whitespace, an
\* optional sign, digits with at most one decimal point.  (Exponents, "inf"
\* and the like do not occur in the inputs of this model.)
is_numeric_text(s) ==
    LET b == str_strip(s)
        u == IF b # <<>> /\ Head(b) \in {"+", "-"} THEN Tail(b) ELSE b
        isDigit(c) == \E d \in 1..Len(Digits) : Digits[d] = c
    IN  /\ \A i \in 1..Len(u) : isDigit(u[i]) \/ u[i] = "."
        /\ \E i \in 1..Len(u) : isDigit(u[i])
        /\ Cardinality({i \in 1..Len(u) : u[i] = "."}) <= 1

\* pd.to_numeric(x, errors="coerce").notna() on one element
to_numeric_notna(c) ==
    IF c.t = "num" THEN TRUE
    ELSE IF c.t = "str" THEN is_numeric_text(c.v)
    ELSE FALSE

filter_real_rows(df) ==
    LET serial_col == detect_serial_col(df) IN
    IF serial_col = 0 THEN df
    ELSE loc(df, [k \in 1..Len(df.rows) |-> to_numeric_notna(df.rows[k][serial_col])])

-----------------------------------------------------------------------------
(* count_real_records, src/app.py:89-105 *)

count_real_records(df) ==
    LET serial_col == detect_serial_col(df) IN
    IF serial_col # 0
    THEN Cardinality({k \in 1..Len(df.rows) : to_numeric_notna(df.rows[k][serial_col])})
    ELSE IF has_col(df, NAME_COL)
    THEN LET n == normalize_name(column(df, NAME_COL))
         IN  Cardinality({k \in 1..Len(n) : n[k] # <<>>})
    ELSE Len(df.rows)

-----------------------------------------------------------------------------
(* add_serial_number, src/app.py:107-116 *)

\* The loop of lines 111-113: every column whose header is a serial alias has
\* been dropped; what is left keeps its order.
kept_columns(df) == [i \in 1..Len(df.cols) |-> ~is_serial_header(df.cols[i])]

\* A variant that counts from zero: range(len(df))
serial_value_from_zero(k) == Num(k - 1)

\* range(1, len(df) + 1), one value per row
serial_value(k) == Num(k)

add_serial_number(df) ==
    LET keep == kept_columns(df) IN
    [cols |-> <<SERIAL_COL>> \o mask_seq(df.cols, keep),
     rows |-> [k \in 1..Len(df.rows) |->
                 <<serial_value(k)>> \o mask_seq(df.rows[k], keep)]]

-----------------------------------------------------------------------------
(* The compare block, src/app.py:213-223 *)

\* A variant that forgets the != "" filter
key_set_with_empty(norm) == {norm[k] : k \in 1..Len(norm)}

\* set(norm[norm != ""].tolist())
key_set(norm) == {norm[k] : k \in {i \in 1..Len(norm) : norm[i] # <<>>}}

\* A variant of line 220 with the operands of line 219
removed_keys_swapped(a, b) == b \ a

\* b_set - a_set (line 219) and a_set - b_set (line 220)
new_keys(a, b) == b \ a
removed_keys(a, b) == a \ b

\* A variant that keeps one row per key, the first
select_rows_first_per_key(df, norm, keys) ==
    loc(df, [k \in 1..Len(norm) |->
               norm[k] \in keys /\ \A j \in 1..(k - 1) : norm[j] # norm[k]])

\* df.loc[norm.isin(keys)].copy()
select_rows(df, norm, keys) == loc(df, isin(norm, keys))

-----------------------------------------------------------------------------
(* build_workbook, src/app.py:121-163 *)

MaxTitle == 31

\* dataframe_to_rows(df, index=False, header=True): the header row, then the
\* data rows in order
dataframe_to_rows(df) ==
    <<[i \in 1..Len(df.cols) |-> Str(df.cols[i])]>> \o df.rows

\* int(text) for a text of digits
RECURSIVE text_to_int(_)
text_to_int(s) ==
    IF s = <<>> THEN 0
    ELSE 10 * text_to_int(SubSeq(s, 1, Len(s) - 1))
         + (CHOOSE d \in 0..9 : Digits[d + 1] = s[Len(s)])

is_digits(s) == \A i \in 1..Len(s) : \E d \in 1..Len(Digits) : Digits[d] = s[i]

max_of(S) == IF S = {} THEN 0 ELSE CHOOSE m \in S : \A n \in S : n <= m

\* openpyxl's title setter, reached from Workbook.create_sheet(title=...):
\* a title that equals an existing one (ignoring case) gets the next free
\* number appended; the result is stored as it is, however long.
avoid_duplicate_name(names, value) ==
    IF \E n \in names : str_lower(n) = str_lower(value)
    THEN LET counts ==
                 { text_to_int(SubSeq(n, Len(value) + 1, Len(n))) :
                     n \in { m \in names :
                               /\ Len(m) > Len(value)
                               /\ str_lower(SubSeq(m, 1, Len(value))) = str_lower(value)
                               /\ is_digits(SubSeq(m, Len(value) + 1, Len(m))) } }
         IN  value \o int_to_text(max_of(counts) + 1)
    ELSE value

\* name[:31]
truncate_title(name) ==
    IF Len(name) > MaxTitle THEN SubSeq(name, 1, MaxTitle) ELSE name

\* wb.create_sheet(title=name[:31]), the rows appended, apply_us_style and
\* apply_fixed_column_widths: one worksheet
make_sheet(wb, name, df) ==
    LET rows == dataframe_to_rows(df) IN
    [title |-> avoid_duplicate_name({wb[i].title : i \in 1..Len(wb)},
                                    truncate_title(name)),
     rows |-> rows,
     header_fill |-> "94B455",
     freeze_panes |-> <<"A","2">>,
     row_heights |-> [r \in 1..Len(rows) |-> 20]]

\* The loop of lines 153-158 over sheets.items(), from a workbook wb
RECURSIVE add_sheets(_, _)
add_sheets(wb, sheets) ==
    IF sheets = <<>> THEN wb
    ELSE add_sheets(Append(wb, make_sheet(wb, Head(sheets).name, Head(sheets).df)),
                    Tail(sheets))

\* Workbook(): a workbook holding one default sheet, the active one
new_workbook ==
    <<[title |-> <<"S","h","e","e","t">>, rows |-> <<>>, header_fill |-> "",
       freeze_panes |-> <<>>, row_heights |-> <<>>]>>

\* A variant that leaves the default sheet in the workbook
remove_active_skipped(wb) == wb

\* wb.remove(wb.active), line 151
remove_active(wb) == Tail(wb)

build_workbook(sheets) ==
    [built |-> TRUE, sheets |-> add_sheets(remove_active(new_workbook), sheets)]

NoWorkbook == [built |-> FALSE, sheets |-> <<>>]

NEW_SHEET == <<"N","e","w","_","i","n","_","E","x","c","e","l","_","B">>
REMOVED_SHEET == <<"R","e","m","o","v","e","d","_","f","r","o","m","_",
                   "E","x","c","e","l","_","A">>

-----------------------------------------------------------------------------
(* Inputs: the sheets a user can upload *)

\* All rows whose i-th cell is drawn from pools[i]
RECURSIVE rows_of(_)
rows_of(pools) ==
    IF pools = <<>> THEN {<<>>}
    ELSE {<<c>> \o r : c \in Head(pools), r \in rows_of(Tail(pools))}

seqs_upto(S, n) == UNION {[1..k -> S] : k \in 0..n}

\* All tables of a layout (its headers, and the rows it may hold) with at
\* most n rows
tables_of(layout, n) ==
    {[cols |-> layout.cols, rows |-> rs] : rs \in seqs_upto(layout.rows, n)}

NameCells == {NA, Str(<<" ">>), Str(<<"a">>), Str(<<"A"," ">>), Str(<<"b">>)}

FlowLayouts ==
    { \* a roster with its serial column: blank, padded and repeated names
      [cols |-> <<SERIAL_COL, NAME_COL>>,
       rows |-> rows_of(<<{Num(5)}, NameCells>>)],
      \* a roster that ends with a footer row; the serial header is an alias
      [cols |-> <<NAME_COL, <<"N","o",".">>>>,
       rows |-> {<<Str(<<"a">>), Num(1)>>, <<Str(<<"b">>), Str(<<"T","o","t","a","l">>)>>}],
      \* a roster without a serial column
      [cols |-> <<NAME_COL>>,
       rows |-> rows_of(<<{Str(<<"a">>), Str(<<" ">>)}>>)],
      \* the identity header misspelt: not the exact header
      [cols |-> <<SERIAL_COL, str_lower(NAME_COL)>>,
       rows |-> rows_of(<<{Num(1)}, {Str(<<"a">>)}>>)] }

FlowTables == UNION {tables_of(l, MaxRows) : l \in FlowLayouts}

\* No helper call is in progress (the script run is the whole behaviour)
CallIdle == fn = "" /\ arg = <<>> /\ ret = <<>> /\ ret2 = <<>>

\* Nothing of the script run has been computed yet
NothingComputed ==
    /\ df_a = EmptyTable /\ df_b = EmptyTable
    /\ issues = <<>>
    /\ a_norm = <<>> /\ b_norm = <<>>
    /\ a_set = {} /\ b_set = {} /\ new_set = {} /\ removed_set = {}
    /\ new_rows = EmptyTable /\ removed_rows = EmptyTable
    /\ new_out = EmptyTable /\ removed_out = EmptyTable
    /\ shown = <<>>
    /\ output = NoWorkbook

Init ==
    /\ legacy_astype \in BOOLEAN
    /\ pc = "start"
    /\ file_a \in BOOLEAN
    /\ file_b \in BOOLEAN
    /\ df_a_raw \in (IF file_a THEN FlowTables ELSE {EmptyTable})
    /\ df_b_raw \in (IF file_b THEN FlowTables ELSE {EmptyTable})
    /\ NothingComputed
    /\ CallIdle

-----------------------------------------------------------------------------
(* The script run, src/app.py:187-289 *)

event(kind, label, val) == [kind |-> kind, label |-> label, val |-> val]

\* Lines 288-289: a file is missing, the page only asks for the uploads
AwaitUploads ==
    /\ pc = "start"
    /\ ~(file_a /\ file_b)
    /\ shown' = Append(shown, event("info", "upload", 0))
    /\ pc' = "done"
    /\ UNCHANGED <<legacy_astype, file_a, file_b, df_a_raw, df_b_raw, df_a, df_b,
                   issues, a_norm, b_norm, a_set, b_set, new_set, removed_set,
                   new_rows, removed_rows, new_out, removed_out, output, call_vars>>

\* Lines 187-198: both sheets parsed, footer rows filtered out
FilterRows ==
    /\ pc = "start"
    /\ file_a /\ file_b
    /\ df_a' = filter_real_rows(df_a_raw)
    /\ df_b' = filter_real_rows(df_b_raw)
    /\ pc' = "filtered"
    /\ UNCHANGED <<legacy_astype, file_a, file_b, df_a_raw, df_b_raw,
                   issues, a_norm, b_norm, a_set, b_set, new_set, removed_set,
                   new_rows, removed_rows, new_out, removed_out, shown, output,
                   call_vars>>

\* A variant that validates table A only
validation_issues_a_only(a, b) ==
    IF ~has_col(a, NAME_COL) THEN <<"A">> ELSE <<>>

\* Lines 200-210: the issues, one st.error each, st.stop() if there is any
validation_issues(a, b) ==
    (IF ~has_col(a, NAME_COL) THEN <<"A">> ELSE <<>>)
    \o (IF ~has_col(b, NAME_COL) THEN <<"B">> ELSE <<>>)

Validate ==
    /\ pc = "filtered"
    /\ issues' = validation_issues(df_a, df_b)
    /\ IF issues' # <<>>
       THEN /\ shown' = shown \o [i \in 1..Len(issues') |-> event("error", issues'[i], 0)]
            /\ pc' = "stopped"
       ELSE /\ shown' = shown
            /\ pc' = "validated"
    /\ UNCHANGED <<legacy_astype, file_a, file_b, df_a_raw, df_b_raw, df_a, df_b,
                   a_norm, b_norm, a_set, b_set, new_set, removed_set,
                   new_rows, removed_rows, new_out, removed_out, output, call_vars>>

\* Lines 213-223
Compare ==
    /\ pc = "validated"
    /\ a_norm' = normalize_name(column(df_a, NAME_COL))
    /\ b_norm' = normalize_name(column(df_b, NAME_COL))
    /\ a_set' = key_set(a_norm')
    /\ b_set' = key_set(b_norm')
    /\ new_set' = new_keys(a_set', b_set')
    /\ removed_set' = removed_keys(a_set', b_set')
    /\ new_rows' = select_rows(df_b, b_norm', new_set')
    /\ removed_rows' = select_rows(df_a, a_norm', removed_set')
    /\ pc' = "compared"
    /\ UNCHANGED <<legacy_astype, file_a, file_b, df_a_raw, df_b_raw, df_a, df_b,
                   issues, new_out, removed_out, shown, output, call_vars>>

\* Lines 225-226
Index ==
    /\ pc = "compared"
    /\ new_out' = add_serial_number(new_rows)
    /\ removed_out' = add_serial_number(removed_rows)
    /\ pc' = "indexed"
    /\ UNCHANGED <<legacy_astype, file_a, file_b, df_a_raw, df_b_raw, df_a, df_b,
                   issues, a_norm, b_norm, a_set, b_set, new_set, removed_set,
                   new_rows, removed_rows, shown, output, call_vars>>

\* out[[SERIAL_COL, NAME_COL]]
preview_of(out) ==
    [cols |-> <<SERIAL_COL, NAME_COL>>,
     rows |-> [k \in 1..Len(out.rows) |->
                 <<out.rows[k][col_index(out, SERIAL_COL)],
                   out.rows[k][col_index(out, NAME_COL)]>>]]

preview_event(label, out) ==
    IF out.rows # <<>> THEN event("dataframe", label, preview_of(out))
    ELSE event("success", label, 0)

\* Lines 228-267: the four KPIs, then the two previews
Preview ==
    /\ pc = "indexed"
    /\ shown' = shown \o
          << event("metric", "baseline", count_real_records(df_a_raw)),
             event("metric", "current", count_real_records(df_b_raw)),
             event("metric", "new", Len(new_out.rows)),
             event("metric", "removed", Len(removed_out.rows)),
             preview_event("new", new_out),
             preview_event("removed", removed_out) >>
    /\ pc' = "previewed"
    /\ UNCHANGED <<legacy_astype, file_a, file_b, df_a_raw, df_b_raw, df_a, df_b,
                   issues, a_norm, b_norm, a_set, b_set, new_set, removed_set,
                   new_rows, removed_rows, new_out, removed_out, output, call_vars>>

\* Lines 270-286
Export ==
    /\ pc = "previewed"
    /\ output' = build_workbook(<< [name |-> NEW_SHEET, df |-> new_out],
                                   [name |-> REMOVED_SHEET, df |-> removed_out] >>)
    /\ shown' = Append(shown, event("download", "xlsx", 0))
    /\ pc' = "exported"
    /\ UNCHANGED <<legacy_astype, file_a, file_b, df_a_raw, df_b_raw, df_a, df_b,
                   issues, a_norm, b_norm, a_set, b_set, new_set, removed_set,
                   new_rows, removed_rows, new_out, removed_out, call_vars>>

Next ==
    \/ AwaitUploads
    \/ FilterRows
    \/ Validate
    \/ Compare
    \/ Index
    \/ Preview
    \/ Export

Spec == Init /\ [][Next]_vars

-----------------------------------------------------------------------------
(* Single calls of the helpers, on inputs drawn from bounded sets *)

\* No script run is in progress
FlowIdle ==
    /\ file_a = FALSE /\ file_b = FALSE
    /\ df_a_raw = EmptyTable /\ df_b_raw = EmptyTable
    /\ NothingComputed

Return(value) ==
    /\ ret' = value
    /\ pc' = "returned"
    /\ UNCHANGED <<legacy_astype, file_a, file_b, df_a_raw, df_b_raw, df_a, df_b,
                   issues, a_norm, b_norm, a_set, b_set, new_set, removed_set,
                   new_rows, removed_rows, new_out, removed_out, shown, output,
                   fn, arg, ret2>>

(* normalize_name on a series of two raw identity values, then on its own result *)

Alphabet == {"a", "A", " "}

ALICE_RAW == <<" "," ","A","l","i","c","e"," "," "," ","T","a","n"," ">>
ALICE_KEY == <<"A","L","I","C","E"," ","T","A","N">>

TAB_RAW == <<"\t","a","\n","\t","a"," ">>

RawTexts == seqs_upto(Alphabet, MaxLen) \cup {ALICE_RAW, ALICE_KEY, TAB_RAW}

RawCells == {NA, Num(7)} \cup {Str(s) : s \in RawTexts}

InitNorm ==
    /\ legacy_astype \in BOOLEAN
    /\ pc = "call"
    /\ FlowIdle
    /\ fn = "normalize_name"
    /\ arg \in [1..2 -> RawCells]
    /\ ret = <<>> /\ ret2 = <<>>

CallNormalize ==
    /\ pc = "call" /\ fn = "normalize_name"
    /\ Return(normalize_name(arg))

CallNormalizeAgain ==
    /\ pc = "returned" /\ fn = "normalize_name"
    /\ ret2' = normalize_name([i \in 1..Len(ret) |-> Str(ret[i])])
    /\ pc' = "done"
    /\ UNCHANGED <<legacy_astype, file_a, file_b, df_a_raw, df_b_raw, df_a, df_b,
                   issues, a_norm, b_norm, a_set, b_set, new_set, removed_set,
                   new_rows, removed_rows, new_out, removed_out, shown, output,
                   fn, arg, ret>>

NextNorm == CallNormalize \/ CallNormalizeAgain

SpecNorm == InitNorm /\ [][NextNorm]_vars

(* filter_real_rows and add_serial_number on one table *)

T_NAME == <<"N","a","m","e">>

RichSerialCells ==
    {Num(3), Str(<<"7">>), Str(<<"T","o","t","a","l">>), Str(<<" ">>), NA}

CallLayouts ==
    { \* no serial column
      [cols |-> <<T_NAME>>, rows |-> rows_of(<<{Str(<<"a">>), Str(<<"b">>)}>>)],
      \* an alias in another case, padded
      [cols |-> <<<<" ","s","/","n"," ">>, T_NAME>>,
       rows |-> rows_of(<<RichSerialCells, {Str(<<"a">>)}>>)],
      \* two aliases, neither first
      [cols |-> <<T_NAME, <<"N","o",".">>, <<"I","N","D","E","X">>>>,
       rows |-> rows_of(<<{Str(<<"a">>)}, {Num(2), NA}, {Num(9), Str(<<"x">>)}>>)],
      \* nothing but the serial column
      [cols |-> <<SERIAL_COL>>, rows |-> rows_of(<<{Num(3), NA}>>)],
      \* a header that only starts like an alias
      [cols |-> <<<<"S","e","r","i","a","l"," ","N","u","m","b","e","r">>, T_NAME>>,
       rows |-> rows_of(<<{Num(1), Str(<<"x">>)}, {Str(<<"a">>)}>>)] }

CallTables == UNION {tables_of(l, MaxCallRows) : l \in CallLayouts}

InitTable ==
    /\ legacy_astype \in BOOLEAN
    /\ pc = "call"
    /\ FlowIdle
    /\ fn \in {"filter_real_rows", "add_serial_number"}
    /\ arg \in CallTables
    /\ ret = <<>> /\ ret2 = <<>>

CallFilter ==
    /\ pc = "call" /\ fn = "filter_real_rows"
    /\ Return(filter_real_rows(arg))

CallAddSerial ==
    /\ pc = "call" /\ fn = "add_serial_number"
    /\ Return(add_serial_number(arg))

NextTable == CallFilter \/ CallAddSerial

SpecTable == InitTable /\ [][NextTable]_vars

(* build_workbook on a mapping of sheet names to row collections *)

MaxSheets == 2

\* MaxTitle - 1 times "x"
LongPrefix == [i \in 1..(MaxTitle - 1) |-> "x"]

SheetNames ==
    {NEW_SHEET, REMOVED_SHEET} \cup {LongPrefix \o t : t \in seqs_upto({"a", "b"}, MaxTail)}

\* An indexed result of two rows, and one of none
SheetTables ==
    {[cols |-> <<SERIAL_COL, T_NAME>>,
      rows |-> [k \in 1..n |-> <<Num(k), Str(<<"a">>)>>]] : n \in {0, 2}}

\* A dict: its keys are pairwise distinct
Mappings ==
    {m \in seqs_upto([name : SheetNames, df : SheetTables], MaxSheets) :
        \A i, j \in 1..Len(m) : i # j => m[i].name # m[j].name}

InitWorkbook ==
    /\ legacy_astype \in BOOLEAN
    /\ pc = "call"
    /\ FlowIdle
    /\ fn = "build_workbook"
    /\ arg \in Mappings
    /\ ret = <<>> /\ ret2 = <<>>

CallBuildWorkbook ==
    /\ pc = "call" /\ fn = "build_workbook"
    /\ Return(build_workbook(arg))

NextWorkbook == CallBuildWorkbook

SpecWorkbook == InitWorkbook /\ [][NextWorkbook]_vars

-----------------------------------------------------------------------------
(* Vocabulary of the properties *)

AfterCompare == {"compared", "indexed", "previewed", "exported"}

\* A missing identity value, or one of whitespace only
blank_cell(c) ==
    \/ c.t = "na"
    \/ c.t = "str" /\ \A i \in 1..Len(c.v) : c.v[i] \in Whitespace

name_cell(df, k) == df.rows[k][col_index(df, NAME_COL)]

\* The NormalizedKey of row k of a table
row_key(df, k) == normalize_one(name_cell(df, k))

\* keysA, keysB: the non-empty NormalizedKeys of a table
keys_of(df) == {row_key(df, k) : k \in 1..Len(df.rows)} \ {<<>>}

\* The rows of a table whose NormalizedKey lies in a set, in the table's order
rows_with_key_in(df, keys) ==
    LET idx == col_index(df, NAME_COL)
        Test(r) == normalize_one(r[idx]) \in keys
    IN  SelectSeq(df.rows, Test)

count_rows(df, keys) == Cardinality({k \in 1..Len(df.rows) : row_key(df, k) \in keys})

\* The words of a text: its maximal runs of non-whitespace characters
RECURSIVE words_from(_, _)
words_from(s, cur) ==
    IF s = <<>> THEN (IF cur = <<>> THEN <<>> ELSE <<cur>>)
    ELSE IF Head(s) \in Whitespace
         THEN (IF cur = <<>> THEN <<>> ELSE <<cur>>) \o words_from(Tail(s), <<>>)
         ELSE words_from(Tail(s), Append(cur, Head(s)))

words(s) == words_from(s, <<>>)

\* Two texts that differ only in letter case, in leading or trailing
\* whitespace, or in the length of their internal whitespace runs
differ_only_in_case_and_spacing(x, y) ==
    LET wx == words(x)
        wy == words(y)
    IN  /\ Len(wx) = Len(wy)
        /\ \A i \in 1..Len(wx) : str_lower(wx[i]) = str_lower(wy[i])

-----------------------------------------------------------------------------
\* C1: the added and removed key sets are disjoint from each other and from
\* the unchanged intersection, and no normalized identity occurs both among
\* the added rows and among the removed rows.
C1_DiffSetsDisjoint ==
    pc \in AfterCompare =>
        /\ new_set \cap removed_set = {}
        /\ new_set \cap (a_set \cap b_set) = {}
        /\ removed_set \cap (a_set \cap b_set) = {}
        /\ {row_key(new_rows, k) : k \in 1..Len(new_rows.rows)}
             \cap {row_key(removed_rows, k) : k \in 1..Len(removed_rows.rows)} = {}

C1_Witness ==
    /\ pc = "compared"
    /\ new_rows.rows # <<>> /\ removed_rows.rows # <<>>
    /\ a_set \cap b_set # {}

\* C2: a missing (or whitespace-only) identity value normalizes to the empty
\* string, contributes no key to keysA or keysB, and its row is never among
\* the added or the removed rows.
C2_BlankIsNoIdentity ==
    pc \in AfterCompare =>
        /\ \A k \in 1..Len(df_a.rows) : blank_cell(name_cell(df_a, k)) => a_norm[k] = <<>>
        /\ \A k \in 1..Len(df_b.rows) : blank_cell(name_cell(df_b, k)) => b_norm[k] = <<>>
        /\ a_set = {a_norm[k] : k \in {i \in 1..Len(a_norm) : ~blank_cell(name_cell(df_a, i))}}
        /\ b_set = {b_norm[k] : k \in {i \in 1..Len(b_norm) : ~blank_cell(name_cell(df_b, i))}}
        /\ \A k \in 1..Len(new_rows.rows) : ~blank_cell(name_cell(new_rows, k))
        /\ \A k \in 1..Len(removed_rows.rows) : ~blank_cell(name_cell(removed_rows, k))

\* C3: the added rows are exactly the rows of filtered B whose NormalizedKey
\* is in keysB - keysA, the removed rows exactly those of filtered A whose
\* key is in keysA - keysB, each in the source order with every duplicate
\* kept, and no row is selected for a key present in both tables.
C3_RowSelectionExact ==
    pc \in AfterCompare =>
        LET ka == keys_of(df_a)
            kb == keys_of(df_b)
        IN  /\ new_rows = [cols |-> df_b.cols, rows |-> rows_with_key_in(df_b, kb \ ka)]
            /\ removed_rows = [cols |-> df_a.cols, rows |-> rows_with_key_in(df_a, ka \ kb)]
            /\ \A k \in 1..Len(new_rows.rows) : row_key(new_rows, k) \notin ka \cap kb
            /\ \A k \in 1..Len(removed_rows.rows) : row_key(removed_rows, k) \notin ka \cap kb

\* A key twice in A and absent from B: both rows are removed
C3_Witness ==
    /\ pc = "compared"
    /\ Len(df_a.rows) = 2
    /\ name_cell(df_a, 1) # name_cell(df_a, 2)
    /\ row_key(df_a, 1) = row_key(df_a, 2)
    /\ df_a.rows[1] # df_a.rows[2]
    /\ removed_rows.rows = df_a.rows
    /\ new_rows.rows # <<>>

\* C4 as stated: len(added) + len(unchanged-in-B) = len(filtered B), and
\* len(removed) + len(unchanged-in-A) = len(filtered A).
C4_RowCountLaw ==
    pc \in AfterCompare =>
        LET both == keys_of(df_a) \cap keys_of(df_b) IN
        /\ Len(new_rows.rows) + count_rows(df_b, both) = Len(df_b.rows)
        /\ Len(removed_rows.rows) + count_rows(df_a, both) = Len(df_a.rows)

\* C4 as amended: the rows whose NormalizedKey is empty are counted apart:
\* len(added) + len(unchanged-in-B) + len(empty-key rows of B) = len(filtered B),
\* and likewise for A and removed.
C4_RowCountLawWithEmptyKeys ==
    pc \in AfterCompare =>
        LET both == keys_of(df_a) \cap keys_of(df_b) IN
        /\ Len(new_rows.rows) + count_rows(df_b, both) + count_rows(df_b, {<<>>})
             = Len(df_b.rows)
        /\ Len(removed_rows.rows) + count_rows(df_a, both) + count_rows(df_a, {<<>>})
             = Len(df_a.rows)

C4_Witness ==
    /\ pc = "compared"
    /\ count_rows(df_b, {<<>>}) = 1
    /\ Len(new_rows.rows) = 1
    /\ Len(removed_rows.rows) = 1

\* C5: add_serial_number returns a table whose first column is "S/N" reading
\* 1, 2, ..., N in row order whatever ordinals the source held; every column
\* whose header is a serial alias is gone, so "S/N" is the only ordinal
\* column, and the other columns keep their order and their cells.
C5_OrdinalLaw ==
    (pc = "returned" /\ fn = "add_serial_number") =>
        LET others == {i \in 1..Len(arg.cols) : ~is_serial_header(arg.cols[i])}
            \* the position in ret of the i-th column of arg, for i in others
            pos(i) == 1 + Cardinality({j \in others : j <= i})
        IN  /\ Len(ret.cols) = 1 + Cardinality(others)
            /\ ret.cols[1] = SERIAL_COL
            /\ {i \in 1..Len(ret.cols) : is_serial_header(ret.cols[i])} = {1}
            /\ Len(ret.rows) = Len(arg.rows)
            /\ \A k \in 1..Len(ret.rows) : ret.rows[k][1] = Num(k)
            /\ \A i \in others :
                  /\ ret.cols[pos(i)] = arg.cols[i]
                  /\ \A k \in 1..Len(arg.rows) : ret.rows[k][pos(i)] = arg.rows[k][i]

\* Two rows, two alias columns, source ordinals that are not 1, 2
C5_Witness ==
    /\ pc = "returned" /\ fn = "add_serial_number"
    /\ Len(arg.rows) = 2
    /\ Cardinality({i \in 1..Len(arg.cols) : is_serial_header(arg.cols[i])}) = 2
    /\ arg.rows[1][2] = NA /\ arg.rows[2][2] = Num(2)
    /\ Len(ret.cols) = 2

\* C6: without a serial-alias header filter_real_rows returns the table as it
\* is; with one, it keeps exactly the rows whose cell in the first such column
\* coerces to a number, in order, and a table whose rows all fail is empty.
C6_RowFilter ==
    (pc = "returned" /\ fn = "filter_real_rows") =>
        LET aliases == {i \in 1..Len(arg.cols) : is_serial_header(arg.cols[i])} IN
        IF aliases = {} THEN ret = arg
        ELSE LET first == CHOOSE i \in aliases : \A j \in aliases : i <= j
                 Real(r) == to_numeric_notna(r[first])
                 Footer(c) == c \in {NA, Str(<<" ">>), Str(<<"T","o","t","a","l">>)}
             IN  /\ ret.cols = arg.cols
                 /\ ret.rows = SelectSeq(arg.rows, Real)
                 /\ \A k \in 1..Len(ret.rows) : ~Footer(ret.rows[k][first])
                 /\ (\A k \in 1..Len(arg.rows) : Footer(arg.rows[k][first]))
                       => ret.rows = <<>>

\* A padded lower-case alias; a "Total" footer dropped, a numeric text kept
C6_Witness ==
    /\ pc = "returned" /\ fn = "filter_real_rows"
    /\ arg.cols[1] = <<" ","s","/","n"," ">>
    /\ Len(arg.rows) = 2
    /\ arg.rows[1][1] = Str(<<"T","o","t","a","l">>)
    /\ arg.rows[2][1] = Str(<<"7">>)
    /\ ret.rows = <<arg.rows[2]>>

\* C7: when the identity column is absent from table A, table B or both, the
\* run stops at validation with one error per table lacking it, and produces
\* no key sets, no added or removed rows, no preview and no export.
C7_AbortOnMissingColumn ==
    LET missing == (IF ~has_col(df_a_raw, NAME_COL) THEN <<"A">> ELSE <<>>)
                   \o (IF ~has_col(df_b_raw, NAME_COL) THEN <<"B">> ELSE <<>>)
    IN  (file_a /\ file_b /\ pc \notin {"start", "filtered"} /\ missing # <<>>) =>
            /\ pc = "stopped"
            /\ issues = missing
            /\ shown = [i \in 1..Len(missing) |-> event("error", missing[i], 0)]
            /\ a_norm = <<>> /\ b_norm = <<>>
            /\ a_set = {} /\ b_set = {} /\ new_set = {} /\ removed_set = {}
            /\ new_rows = EmptyTable /\ removed_rows = EmptyTable
            /\ new_out = EmptyTable /\ removed_out = EmptyTable
            /\ output = NoWorkbook

\* The column is missing from B only
C7_Witness ==
    /\ pc = "stopped"
    /\ has_col(df_a_raw, NAME_COL)
    /\ ~has_col(df_b_raw, NAME_COL)
    /\ issues = <<"B">>
    /\ df_a.rows # <<>>

\* C8: the sheet titles of the exported document are pairwise distinct, each
\* at most 31 characters long, and there is one sheet per mapping entry.
C8_TitlesDistinctAndShort ==
    (pc = "returned" /\ fn = "build_workbook") =>
        /\ Len(ret.sheets) = Len(arg)
        /\ \A i, j \in 1..Len(ret.sheets) :
              i # j => ret.sheets[i].title # ret.sheets[j].title
        /\ \A i \in 1..Len(ret.sheets) : Len(ret.sheets[i].title) <= 31

\* C9: the document has exactly one sheet per mapping entry (the default
\* sheet is gone), each made of the header row followed by the N data rows of
\* its row collection in order, also when N = 0.
C9_ExportStructure ==
    (pc = "returned" /\ fn = "build_workbook") =>
        /\ Len(ret.sheets) = Len(arg)
        /\ \A i \in 1..Len(arg) :
              LET sheet == ret.sheets[i]
                  df == arg[i].df
              IN  /\ Len(sheet.rows) = Len(df.rows) + 1
                  /\ sheet.rows[1] = [c \in 1..Len(df.cols) |-> Str(df.cols[c])]
                  /\ \A k \in 1..Len(df.rows) : sheet.rows[k + 1] = df.rows[k]

\* Scenario 5: a sheet of two rows and a sheet of none
C9_Witness ==
    /\ pc = "returned" /\ fn = "build_workbook"
    /\ Len(arg) = 2
    /\ Len(arg[1].df.rows) = 2 /\ arg[2].df.rows = <<>>
    /\ Len(ret.sheets[1].rows) = 3 /\ Len(ret.sheets[2].rows) = 1

\* C10: normalization is idempotent, and two raw values that differ only in
\* letter case, in leading or trailing whitespace or in the length of their
\* internal whitespace runs have the same key ("  Alice   Tan " and
\* "ALICE TAN" both give "ALICE TAN").
C10_NormalizeCanonical ==
    (fn = "normalize_name" /\ pc \in {"returned", "done"}) =>
        /\ pc = "done" => ret2 = ret
        /\ (arg[1].t = "str" /\ arg[2].t = "str"
              /\ differ_only_in_case_and_spacing(arg[1].v, arg[2].v))
             => ret[1] = ret[2]
        /\ \A i \in 1..2 : arg[i] \in {Str(ALICE_RAW), Str(ALICE_KEY)} => ret[i] = ALICE_KEY

\* Different case, different padding, a longer internal run
C10_Witness ==
    /\ fn = "normalize_name" /\ pc = "done"
    /\ arg[1] = Str(<<"a"," "," ","A">>)
    /\ arg[2] = Str(<<" ","A"," ","a">>)
    /\ ret = <<<<"A"," ","A">>, <<"A"," ","A">>>>

=============================================================================
